---------------------------- MODULE Spec2Model ----------------------------
(***************************************************************************)
(* A model of myjson.hpp: the JsonNode value hierarchy, the recursive      *)
(* parser parse_json and the serializer write.                             *)
(*                                                                         *)
(* Characters are one-character strings; "EOF" stands for the value        *)
(* in.get() returns at end of stream (and for the char it becomes when it  *)
(* is stored in a char, char being signed on the modelled build) and "NUL" *)
(* for the 0 byte.  Texts are sequences of characters.  The byte 0xFF,     *)
(* which a signed char cannot tell from EOF, is not part of any text here. *)
(***************************************************************************)
EXTENDS Integers, Sequences, FiniteSets, TLC

(***************************************************************************)
(* Bounds of the model.                                                    *)
(***************************************************************************)
\* longest body of a quoted string that is enumerated
MaxBody == 4
\* longest token sequence that is enumerated
MaxTokens == 4
\* longest list of array elements, of object entries and of enclosing
\* values that is enumerated; a numeral has up to MaxElems characters
MaxElems == 3
\* longest payload of a constructed String value
MaxPayload == 2
\* most entries of an object and most elements of an array in the texts
\* that are read token by token
MaxEntries == 2
\* iterations of read_string's loop that the step-wise model follows
MaxCollected == 4

(***************************************************************************)
(* Characters.                                                             *)
(***************************************************************************)
Digits == {"0", "1", "2", "3", "4", "5", "6", "7", "8", "9"}

\* the value of a digit character: letter - '0'
DigitVal(c) ==
    CASE c = "0" -> 0 [] c = "1" -> 1 [] c = "2" -> 2 [] c = "3" -> 3
      [] c = "4" -> 4 [] c = "5" -> 5 [] c = "6" -> 6 [] c = "7" -> 7
      [] c = "8" -> 8 [] c = "9" -> 9

\* the digit character of a value 0..9
DigitChar(d) == CHOOSE c \in Digits : DigitVal(c) = d

\* the characters from ' ' (32) to '_' (95) and from 'a' (97) to '~' (126),
\* in the order of their codes
Printable ==
    <<
    " ", "!", "\"", "#", "$", "%", "&", "'", "(", ")", "*", "+", ",", "-",
    ".", "/", "0", "1", "2", "3", "4", "5", "6", "7", "8", "9", ":", ";",
    "<", "=", ">", "?", "@", "A", "B", "C", "D", "E", "F", "G", "H", "I",
    "J", "K", "L", "M", "N", "O", "P", "Q", "R", "S", "T", "U", "V", "W",
    "X", "Y", "Z", "[", "\\", "]", "^", "_", "a", "b", "c", "d", "e",
    "f", "g", "h", "i", "j", "k", "l", "m", "n", "o", "p", "q", "r", "s",
    "t", "u", "v", "w", "x", "y", "z", "{", "|", "}", "~"
    >>

\* the integer a char converts to (ASCII); EOF is the char that get()
\* returns at the end of the stream, (char)-1
CharCode(c) ==
    CASE c = "EOF" -> 0 - 1
      [] c = "NUL" -> 0
      [] c = "\t" -> 9
      [] c = "\n" -> 10
      [] c = "\f" -> 12
      [] c = "\r" -> 13
      [] OTHER ->
            LET i == CHOOSE j \in 1..Len(Printable) : Printable[j] = c
            IN  IF i <= 64 THEN 31 + i ELSE 32 + i

(***************************************************************************)
(* The input stream: the buffer, the number of characters consumed, and    *)
(* whether a read has failed (get() at the end sets eofbit and failbit;    *)
(* once failbit is set every get() returns EOF and unget() does nothing).  *)
(***************************************************************************)
IStream(text) == [buf |-> text, pos |-> 0, fail |-> FALSE]

\* in.get(): the next character, or EOF
Get(in) ==
    IF in.fail \/ in.pos >= Len(in.buf)
    THEN [c |-> "EOF", in |-> [in EXCEPT !.fail = TRUE]]
    ELSE [c |-> in.buf[in.pos + 1], in |-> [in EXCEPT !.pos = @ + 1]]

\* in.unget(): the last character read is made available again
Unget(in) ==
    IF in.fail \/ in.pos = 0
    THEN [in EXCEPT !.fail = TRUE]
    ELSE [in EXCEPT !.pos = @ - 1]

(***************************************************************************)
(* Values.                                                                 *)
(***************************************************************************)
\* struct JsonNode: the null value
JsonNode == [type |-> "NIL"]

JsonString(from) == [type |-> "STRING", str |-> from]

JsonDouble(from) == [type |-> "NUMBER", num |-> from]

JsonBool(from) == [type |-> "BOOL", bool |-> from]

\* an array with the given elements (a sequence of values)
JsonArray(elems) == [type |-> "ARRAY", elems |-> elems]

\* an object with the given entries (a set of <<key, value>> pairs)
JsonObject(members) == [type |-> "OBJECT", members |-> members]

(***************************************************************************)
(* Outcomes of a call: a value returned, an exception thrown, or the       *)
(* read_string loop that can no longer meet its exit test (it appends one  *)
(* character per iteration until the allocation of the string fails).      *)
(* Every outcome carries the stream as the call leaves it.                 *)
(***************************************************************************)
Returned(v, in) == [kind |-> "value", value |-> v, in |-> in]

\* throw(std::runtime_error(what)); ub: what was read out of bounds
Thrown(err, what, ub, in) ==
    [kind |-> "error", err |-> err, what |-> what, ub |-> ub, in |-> in]

Runaway(in) == [kind |-> "runaway", in |-> in]

MsgTrue ==
    <<"J", "S", "O", "N", " ", "p", "a", "r", "s", "e", "r", " ", "f", "o",
      "u", "n", "d", " ", "m", "i", "s", "s", "p", "e", "l", "l", "e", "d",
      " ", "b", "o", "o", "l", " ", "'", "t", "r", "u", "e", "'">>

MsgFalse ==
    <<"J", "S", "O", "N", " ", "p", "a", "r", "s", "e", "r", " ", "f", "o",
      "u", "n", "d", " ", "m", "i", "s", "s", "p", "e", "l", "l", "e", "d",
      " ", "b", "o", "o", "l", " ", "'", "f", "a", "l", "s", "e", "'">>

MsgNull ==
    <<"J", "S", "O", "N", " ", "p", "a", "r", "s", "e", "r", " ", "f", "o",
      "u", "n", "d", " ", "m", "i", "s", "s", "p", "e", "l", "l", "e", "d",
      " ", "b", "o", "o", "l", " ", "'", "n", "u", "l", "l", "'">>

MsgColon ==
    <<"J", "S", "O", "N", " ", "p", "a", "r", "s", "e", "r", " ", "e", "x",
      "p", "e", "c", "t", "e", "d", " ", "a", "n", " ", "a", "d", "d", "i",
      "t", "i", "o", "n", "a", "l", " ", "'", ":", "'", " ", "s", "o", "m",
      "e", "w", "h", "e", "r", "e">>

MsgUnexpected ==
    <<"J", "S", "O", "N", " ", "p", "a", "r", "s", "e", "r", " ", "f", "o",
      "u", "n", "d", " ", "u", "n", "e", "x", "p", "e", "c", "t", "e", "d",
      " ", "c", "h", "a", "r", "a", "c", "t", "e", "r", " ">>

(***************************************************************************)
(* read_string.  The loop state is the current letter, the characters      *)
(* collected and the stream.                                               *)
(***************************************************************************)
\* char letter = in.get(); std::string collected;
read_string_enter(in) ==
    LET g == Get(in) IN [letter |-> g.c, collected |-> <<>>, in |-> g.in]

\* one iteration of the while loop: the escape test reads the stream anew
\* in each of its three conditions
read_string_body(st) ==
    LET g1 == Get(st.in)
        g2 == Get(g1.in)
        g3 == Get(g2.in)
        esc == IF g1.c = "\""
               THEN [collected |-> Append(st.collected, "\""), in |-> g1.in]
               ELSE IF g2.c = "n"
               THEN [collected |-> Append(st.collected, "\n"), in |-> g2.in]
               ELSE IF g3.c = "\\"
               THEN [collected |-> Append(st.collected, "\\"), in |-> g3.in]
               ELSE [collected |-> st.collected, in |-> g3.in]
        after == IF st.letter = "\\"
                 THEN esc
                 ELSE [collected |-> Append(st.collected, st.letter),
                       in |-> st.in]
        g == Get(after.in)
    IN  [letter |-> g.c, collected |-> after.collected, in |-> g.in]

\* the while loop: it is left only on a '"'; once get() has failed every
\* later letter is EOF and the loop cannot be left any more
RECURSIVE read_string_loop(_)
read_string_loop(st) ==
    IF st.letter = "\""
    THEN [kind |-> "value", str |-> st.collected, in |-> st.in]
    ELSE IF st.letter = "EOF" /\ st.in.fail
    THEN [kind |-> "runaway", str |-> st.collected, in |-> st.in]
    ELSE read_string_loop(read_string_body(st))

read_string(in) == read_string_loop(read_string_enter(in))

\* a read_whitespace that stops at a comma, to test that the properties of
\* commas rest on the loop's test letter == ','
RECURSIVE read_whitespace_StopsAtComma(_)
read_whitespace_StopsAtComma(in) ==
    LET g == Get(in) IN
    IF g.c \in {" ", "\t", "\n"}
    THEN read_whitespace_StopsAtComma(g.in)
    ELSE g

\* read_whitespace: the first character that is no blank, tab, newline or
\* comma
RECURSIVE read_whitespace(_)
read_whitespace(in) ==
    LET g == Get(in) IN
    IF g.c \in {" ", "\t", "\n", ","} THEN read_whitespace(g.in) ELSE g

\* in.get() == w[1] && in.get() == w[2] && ...: reads stop at the first
\* mismatch
RECURSIVE MatchLiteral(_, _)
MatchLiteral(in, w) ==
    IF w = <<>>
    THEN [ok |-> TRUE, in |-> in]
    ELSE LET g == Get(in) IN
         IF g.c = Head(w)
         THEN MatchLiteral(g.in, Tail(w))
         ELSE [ok |-> FALSE, in |-> g.in]

(***************************************************************************)
(* Numbers.  A double is kept as sign, mantissa and binary exponent: its   *)
(* value is mant * 2^exp, with mant odd and below 2^53, or mant 0 and exp  *)
(* 0.  A mantissa, like every natural number of the conversions, is a      *)
(* sequence of limbs of four decimal digits, the least significant first,  *)
(* without zero limbs at its end.  Division by 2^t is multiplication by    *)
(* 5^t followed by dropping t decimal digits.                              *)
(***************************************************************************)
BigNorm(a) ==
    LET n == Len(a) IN
    IF \A i \in 1..n : a[i] = 0 THEN <<>>
    ELSE SubSeq(a, 1, CHOOSE i \in 1..n :
                         a[i] # 0 /\ \A j \in (i + 1)..n : a[j] = 0)

RECURSIVE BigFromNat(_)
BigFromNat(n) ==
    IF n = 0 THEN <<>> ELSE <<n % 10000>> \o BigFromNat(n \div 10000)

\* a * k, for 0 < k < 10000: limb i is the low part of a[i] * k plus the
\* high part of a[i - 1] * k plus the carry, which is 1 when a limb below
\* overflows and every limb between is 9999
BigMulSmall(a, k) ==
    LET n == Len(a)
        lo(i) == IF i >= 1 /\ i <= n THEN (a[i] * k) % 10000 ELSE 0
        hi(i) == IF i >= 1 /\ i <= n THEN (a[i] * k) \div 10000 ELSE 0
        s == [i \in 1..(n + 1) |-> lo(i) + hi(i - 1)]
        c(i) == IF /\ i > 1
                   /\ \/ s[i - 1] >= 10000
                      \/ /\ s[i - 1] = 9999
                         /\ \E j \in 1..(i - 2) :
                               /\ s[j] >= 10000
                               /\ \A m \in (j + 1)..(i - 2) : s[m] = 9999
                THEN 1 ELSE 0
    IN  BigNorm([i \in 1..(n + 1) |-> (s[i] + c(i)) % 10000])

BigLess(a, b) ==
    IF Len(a) # Len(b) THEN Len(a) < Len(b)
    ELSE \E i \in 1..Len(a) :
            a[i] < b[i] /\ \A j \in (i + 1)..Len(a) : a[j] = b[j]

\* a + 1
BigSucc(a) ==
    LET n == Len(a)
        j == IF \A i \in 1..n : a[i] = 9999 THEN n + 1
             ELSE CHOOSE i \in 1..n :
                     a[i] # 9999 /\ \A m \in 1..(i - 1) : a[m] = 9999
    IN  [i \in 1..(IF j > n THEN j ELSE n) |->
            IF i < j THEN 0 ELSE IF i = j /\ j > n THEN 1
            ELSE IF i = j THEN a[i] + 1 ELSE a[i]]

BigIsOdd(a) == a # <<>> /\ Head(a) % 2 = 1

\* a * 10^e
BigMul10(a, e) ==
    IF a = <<>> THEN <<>>
    ELSE [i \in 1..(e \div 4) |-> 0] \o BigMulSmall(a, 10 ^ (e % 4))

\* a * 2^n and a * 5^n, by halves of n so that the evaluation stays flat
RECURSIVE BigMulPow2(_, _)
BigMulPow2(a, n) ==
    IF a = <<>> THEN <<>>
    ELSE IF n <= 13 THEN BigMulSmall(a, 2 ^ n)
    ELSE BigMulPow2(BigMulPow2(a, n \div 2), n - n \div 2)

RECURSIVE BigMulPow5(_, _)
BigMulPow5(a, n) ==
    IF a = <<>> THEN <<>>
    ELSE IF n <= 5 THEN BigMulSmall(a, 5 ^ n)
    ELSE BigMulPow5(BigMulPow5(a, n \div 2), n - n \div 2)

TwoTo53 == BigMulPow2(<<1>>, 53)

TwoTo54 == BigMulPow2(<<1>>, 54)

\* the quotient of a by 10^k, and whether a digit other than 0 was dropped
DropDigits(a, k) ==
    LET n == Len(a)
        w == k \div 4
        p == 10 ^ (k % 4)
        r == 10 ^ (4 - (k % 4))
        b == SubSeq(a, w + 1, n)
        m == Len(b)
    IN  [q |-> BigNorm([i \in 1..m |->
                          b[i] \div p
                          + (IF i < m THEN (b[i + 1] % p) * r ELSE 0)]),
         sticky |-> \/ \E i \in 1..(IF w < n THEN w ELSE n) : a[i] # 0
                    \/ (m > 0 /\ b[1] % p # 0)]

\* a * 2^s when s >= 0, the quotient of a by 2^(-s) otherwise, divided by
\* 10^k
Scaled(a, k, s) ==
    IF s >= 0 THEN DropDigits(BigMulPow2(a, s), k)
    ELSE DropDigits(BigMulPow5(a, 0 - s), k - s)

\* first index from i on whose character is no digit
DigitsEnd(text, i) ==
    IF \A j \in i..Len(text) : text[j] \in Digits
    THEN (IF i > Len(text) THEN i ELSE Len(text) + 1)
    ELSE CHOOSE j \in i..Len(text) :
            text[j] \notin Digits /\ \A m \in i..(j - 1) : text[m] \in Digits

\* the number a short sequence of digit characters denotes
RECURSIVE NatOf(_)
NatOf(ds) ==
    IF ds = <<>> THEN 0
    ELSE 10 * NatOf(SubSeq(ds, 1, Len(ds) - 1)) + DigitVal(ds[Len(ds)])

\* the same for an exponent of any length: from 1000000 on its size no
\* longer matters to the conversion
SatNat(ds) ==
    LET n == Len(ds)
        first == IF \A i \in 1..n : ds[i] = "0" THEN n + 1
                 ELSE CHOOSE i \in 1..n :
                         ds[i] # "0" /\ \A m \in 1..(i - 1) : ds[m] = "0"
    IN  IF n - first + 1 > 6 THEN 1000000 ELSE NatOf(SubSeq(ds, first, n))

\* the natural number a sequence of digit characters denotes
BigFromDigits(ds) ==
    LET n == Len(ds) IN
    BigNorm([i \in 1..((n + 3) \div 4) |->
               NatOf(SubSeq(ds, IF n - 4 * i + 1 < 1 THEN 1
                                ELSE n - 4 * i + 1,
                            n - 4 * (i - 1)))])

\* the decimal digits of a positive integer
RECURSIVE DigitsOf(_)
DigitsOf(n) ==
    IF n < 10 THEN <<DigitChar(n)>>
    ELSE Append(DigitsOf(n \div 10), DigitChar(n % 10))

RECURSIVE Zeros(_)
Zeros(k) == IF k <= 0 THEN <<>> ELSE <<"0">> \o Zeros(k - 1)

\* the decimal digits of a natural number, none for 0
BigDigits(a) ==
    LET n == Len(a) IN
    IF n = 0 THEN <<>>
    ELSE DigitsOf(a[n])
         \o [i \in 1..(4 * (n - 1)) |->
               DigitChar((a[n - 1 - (i - 1) \div 4]
                          \div (10 ^ (3 - ((i - 1) % 4)))) % 10)]

\* the number of decimal digits of a natural number
BigLen(a) ==
    IF a = <<>> THEN 0
    ELSE 4 * (Len(a) - 1) + Len(DigitsOf(a[Len(a)]))

Zero(neg) == [neg |-> neg, mant |-> <<>>, exp |-> 0]

\* std::numeric_limits<double>::max(): (2^53 - 1) * 2^971
DblMax(neg) ==
    [neg |-> neg, mant |-> [TwoTo53 EXCEPT ![1] = @ - 1], exp |-> 971]

\* the quotient of a by 2^t, and whether the division left a remainder
Halved(a, t) == DropDigits(BigMulPow5(a, t), t)

\* v, with t factors 2 of its mantissa moved into the exponent when h, the
\* mantissa halved t times, is exact
MoveTwos(v, t, h) ==
    IF h.sticky THEN v ELSE [v EXCEPT !.mant = h.q, !.exp = @ + t]

StripTwos(v, t) == MoveTwos(v, t, Halved(v.mant, t))

\* mant * 2^exp with all factors 2 of mant (fewer than 64) moved into the
\* exponent
Odd(neg, mant, exp) ==
    IF mant = <<>> THEN Zero(neg)
    ELSE StripTwos(StripTwos(StripTwos(StripTwos(StripTwos(StripTwos(
             [neg |-> neg, mant |-> mant, exp |-> exp],
             32), 16), 8), 4), 2), 1)

\* the largest double in place of a value beyond the range
Finite(neg, mant, exp) ==
    IF exp > 971 \/ (exp = 971 /\ mant = TwoTo53) THEN DblMax(neg)
    ELSE Odd(neg, mant, exp)

\* half of the 54-bit quotient, rounded to nearest and on a tie to even
RoundHalf(half, odd, sticky) ==
    IF odd /\ (sticky \/ BigIsOdd(half)) THEN BigSucc(half) ELSE half

\* the double of r.q * 2^(-s), r.q of 54 bits or fewer
RoundAt(neg, r, s) ==
    Finite(neg, RoundHalf(Halved(r.q, 1).q, BigIsOdd(r.q), r.sticky), 1 - s)

Has54Bits(q) == ~BigLess(q, TwoTo53) /\ BigLess(q, TwoTo54)

\* the s for which X / 10^k * 2^s has 54 bits (53 and one to round on),
\* sought from lo on; at most 1075: the values below the least normal
\* double keep the exponent -1074
ShiftFrom(X, k, lo) ==
    IF lo + 6 >= 1075 /\ BigLess(Scaled(X, k, 1075).q, TwoTo53) THEN 1075
    ELSE CHOOSE t \in lo..(lo + 6) : Has54Bits(Scaled(X, k, t).q)

Rounded(neg, X, k, s) == RoundAt(neg, Scaled(X, k, s), s)

\* the double nearest to X / 10^k, a number of m digits before the point,
\* as strtod and the compiler give it.  Beyond the range of double it is
\* the largest double, which the stream stores when strtod answers
\* HUGE_VAL.
Nearest(neg, X, k, m) ==
    IF m < 0 - 330 THEN Zero(neg)
    ELSE IF m > 310 THEN DblMax(neg)
    ELSE IF k = 0 /\ BigLess(X, TwoTo53) THEN Odd(neg, X, 0)
    ELSE Rounded(neg, X, k,
                 ShiftFrom(X, k, 52 - (m * 3321929) \div 1000000))

\* the double nearest to D * 10^e
FromDecimal(neg, D, e) ==
    IF D = <<>> THEN Zero(neg)
    ELSE Nearest(neg, IF e >= 0 THEN BigMul10(D, e) ELSE D,
                 IF e >= 0 THEN 0 ELSE 0 - e, BigLen(D) + e)

\* the double of the literal m e (42, 5e-1), m a natural number
Double(neg, m, e) == FromDecimal(neg, BigFromNat(m), e)

\* std::stringstream parsing(asString); parsing >> number: the longest
\* prefix sign digits [. digits] [e [sign] digits] is extracted; it must
\* hold a mantissa digit, and an exponent digit when it holds an 'e', or
\* the number read is 0
StrToDouble(text) ==
    LET n == Len(text)
        hasSign == n >= 1 /\ text[1] \in {"-", "+"}
        i0 == IF hasSign THEN 2 ELSE 1
        i1 == DigitsEnd(text, i0)
        hasDot == i1 <= n /\ text[i1] = "."
        f0 == IF hasDot THEN i1 + 1 ELSE i1
        f1 == IF hasDot THEN DigitsEnd(text, f0) ELSE i1
        intDigits == SubSeq(text, i0, i1 - 1)
        fracDigits == SubSeq(text, f0, f1 - 1)
        found_mantissa == Len(intDigits) + Len(fracDigits) > 0
        hasE == found_mantissa /\ f1 <= n /\ text[f1] \in {"e", "E"}
        s0 == f1 + 1
        hasESign == hasE /\ s0 <= n /\ text[s0] \in {"-", "+"}
        x0 == IF hasESign THEN s0 + 1 ELSE s0
        x1 == IF hasE THEN DigitsEnd(text, x0) ELSE x0
        expDigits == IF hasE THEN SubSeq(text, x0, x1 - 1) ELSE <<>>
        exp == IF hasESign /\ text[s0] = "-"
               THEN 0 - SatNat(expDigits)
               ELSE SatNat(expDigits)
        ok == found_mantissa /\ (hasE => Len(expDigits) > 0)
    IN  IF ok
        THEN FromDecimal(hasSign /\ text[1] = "-",
                         BigFromDigits(intDigits \o fracDigits),
                         exp - Len(fracDigits))
        ELSE Zero(FALSE)

\* the condition of the number scan's do-while
IsNumChar(c) == c \in Digits \cup {"-", "E", "e", ",", "."}

\* do { letter = in.get(); asString.push_back(letter); } while (...);
\* the loop takes the characters up to the first that is none of a
\* numeral, or up to the end of the stream, where get() gives EOF and the
\* stream fails
ScanNumber(asString, in) ==
    LET n == Len(in.buf)
        from == in.pos + 1
        stop == IF \A j \in from..n : IsNumChar(in.buf[j]) THEN n + 1
                ELSE CHOOSE j \in from..n :
                        /\ ~IsNumChar(in.buf[j])
                        /\ \A m \in from..(j - 1) : IsNumChar(in.buf[m])
    IN  IF in.fail
        THEN [asString |-> Append(asString, Get(in).c), in |-> Get(in).in]
        ELSE IF stop <= n
        THEN [asString |-> asString \o SubSeq(in.buf, from, stop),
              in |-> [in EXCEPT !.pos = stop]]
        ELSE [asString |-> asString \o SubSeq(in.buf, from, n) \o <<"EOF">>,
              in |-> [in EXCEPT !.pos = n, !.fail = TRUE]]

\* a number branch without in.unget(), to test that the push-back is what
\* leaves the character that ended the scan to the caller
ParseNumber_NoUnget(letter, in) ==
    LET sc == ScanNumber(<<letter>>, in) IN
    Returned(JsonDouble(StrToDouble(sc.asString)), sc.in)

\* the number branch: scan, in.unget(), convert
ParseNumber(letter, in) ==
    LET sc == ScanNumber(<<letter>>, in) IN
    Returned(JsonDouble(StrToDouble(sc.asString)), Unget(sc.in))

\* an assignment that keeps the first value of a key, as map::insert would
MapAssign_KeepFirst(members, name, v) ==
    IF \E p \in members : p[1] = name THEN members
    ELSE members \cup {<<name, v>>}

(***************************************************************************)
(* Objects: retval->get_object()[name] = value replaces the entry of name. *)
(***************************************************************************)
MapAssign(members, name, v) ==
    {p \in members : p[1] # name} \cup {<<name, v>>}

\* "JSON parser found unexpected character " + letter: the literal's
\* address advanced by the char's value.  Within the literal (its 39
\* characters and the 0 that ends it) the message is the rest of the
\* literal from there; beyond it what is read is not defined.
UnexpectedCharacter(letter, in) ==
    LET off == CharCode(letter) IN
    IF off >= 0 /\ off <= Len(MsgUnexpected)
    THEN Thrown("UnexpectedCharacter",
                SubSeq(MsgUnexpected, off + 1, Len(MsgUnexpected)),
                FALSE, in)
    ELSE Thrown("UnexpectedCharacter", <<>>, TRUE, in)

(***************************************************************************)
(* parse_json(std::istream&)                                               *)
(***************************************************************************)
RECURSIVE parse_json(_), ObjectLoop(_, _), ArrayLoop(_, _)

\* an array branch without in.unget(): the element is parsed from the
\* character after its {
ArrayLoop_NoUnget(elems, in) ==
    LET w == read_whitespace(in) IN
    IF w.c = "{"
    THEN LET v == parse_json(w.in) IN
         IF v.kind # "value"
         THEN v
         ELSE IF w.c # "]"
         THEN ArrayLoop(Append(elems, v.value), v.in)
         ELSE Returned(JsonArray(Append(elems, v.value)), v.in)
    ELSE Returned(JsonArray(elems), w.in)

\* a file overload that fails when the file cannot be opened
parse_json_file_NoGoodTest(openable, content) ==
    IF ~openable
    THEN Thrown("CannotOpen", <<>>, FALSE,
                [IStream(<<>>) EXCEPT !.fail = TRUE])
    ELSE parse_json(IStream(content))

parse_json(in) ==
    LET w == read_whitespace(in)
        letter == w.c
    IN  CASE letter \in {"NUL", "EOF"} -> Returned(JsonNode, w.in)
          [] letter = "\"" ->
                LET r == read_string(w.in) IN
                IF r.kind = "value"
                THEN Returned(JsonString(r.str), r.in)
                ELSE Runaway(r.in)
          [] letter = "t" ->
                LET m == MatchLiteral(w.in, <<"r", "u", "e">>) IN
                IF m.ok
                THEN Returned(JsonBool(TRUE), m.in)
                ELSE Thrown("MalformedLiteral", MsgTrue, FALSE, m.in)
          [] letter = "f" ->
                LET m == MatchLiteral(w.in, <<"a", "l", "s", "e">>) IN
                IF m.ok
                THEN Returned(JsonBool(FALSE), m.in)
                ELSE Thrown("MalformedLiteral", MsgFalse, FALSE, m.in)
          [] letter = "n" ->
                LET m == MatchLiteral(w.in, <<"u", "l", "l">>) IN
                IF m.ok
                THEN Returned(JsonNode, m.in)
                ELSE Thrown("MalformedLiteral", MsgNull, FALSE, m.in)
          [] letter = "-" \/ letter \in Digits -> ParseNumber(letter, w.in)
          [] letter = "{" -> ObjectLoop({}, w.in)
          [] letter = "[" -> ArrayLoop(<<>>, w.in)
          [] OTHER -> UnexpectedCharacter(letter, w.in)

\* the do-while of the object branch, entered with the entries read so far
ObjectLoop(members, in) ==
    LET w == read_whitespace(in) IN
    IF w.c = "\""
    THEN LET name == read_string(w.in) IN
         IF name.kind # "value"
         THEN Runaway(name.in)
         ELSE LET c == read_whitespace(name.in) IN
              IF c.c # ":"
              THEN Thrown("ExpectedColon", MsgColon, FALSE, c.in)
              ELSE LET v == parse_json(c.in) IN
                   IF v.kind # "value"
                   THEN v
                   ELSE IF c.c # "}"
                   THEN ObjectLoop(MapAssign(members, name.str, v.value),
                                   v.in)
                   ELSE Returned(
                            JsonObject(MapAssign(members, name.str, v.value)),
                            v.in)
    ELSE Returned(JsonObject(members), w.in)

\* the do-while of the array branch, entered with the elements read so far
ArrayLoop(elems, in) ==
    LET w == read_whitespace(in) IN
    IF w.c = "{"
    THEN LET v == parse_json(Unget(w.in)) IN
         IF v.kind # "value"
         THEN v
         ELSE IF w.c # "]"
         THEN ArrayLoop(Append(elems, v.value), v.in)
         ELSE Returned(JsonArray(Append(elems, v.value)), v.in)
    ELSE Returned(JsonArray(elems), w.in)

\* parse_json(const std::string& filename): file is the content of the
\* file when it can be opened
parse_json_file(openable, content) ==
    IF ~openable
    THEN Returned(JsonNode, [IStream(<<>>) EXCEPT !.fail = TRUE])
    ELSE parse_json(IStream(content))

(***************************************************************************)
(* The serializer.                                                         *)
(***************************************************************************)
\* write_string: the text between quotes, with '"', newline and '\'
\* written as two characters
RECURSIVE EscapeChars(_)
EscapeChars(written) ==
    IF written = <<>> THEN <<>>
    ELSE LET c == Head(written)
             two == IF c = "\"" THEN <<"\\", "\"">>
                    ELSE IF c = "\n" THEN <<"\\", "n">>
                    ELSE IF c = "\\" THEN <<"\\", "\\">>
                    ELSE <<c>>
         IN  two \o EscapeChars(Tail(written))

write_string(written) == <<"\"">> \o EscapeChars(written) \o <<"\"">>

\* sequence of digit characters without its zeros at the end
RECURSIVE StripZeros(_)
StripZeros(ds) ==
    IF ds # <<>> /\ ds[Len(ds)] = "0"
    THEN StripZeros(SubSeq(ds, 1, Len(ds) - 1))
    ELSE ds

\* the digits ds (of a number whose first digit counts 10^X) rounded to
\* the 6 significant digits of the stream's default precision, ties to
\* the even digit: printf rounds the exact value of the double
RoundTo6(ds, X) ==
    IF Len(ds) <= 6
    THEN [ds |-> StripZeros(ds), X |-> X]
    ELSE LET q == NatOf(SubSeq(ds, 1, 6))
             next == DigitVal(ds[7])
             more == \E i \in 8..Len(ds) : ds[i] # "0"
             up == next > 5 \/ (next = 5 /\ (more \/ q % 2 = 1))
             r == IF up THEN q + 1 ELSE q
         IN  IF r = 1000000
             THEN [ds |-> <<"1">>, X |-> X + 1]
             ELSE [ds |-> StripZeros(DigitsOf(r)), X |-> X]

\* out << value_: the default floating-point format, that of printf's %g
WriteDouble(value_) ==
    LET whole == IF value_.exp >= 0
                 THEN BigMulPow2(value_.mant, value_.exp)
                 ELSE BigMulPow5(value_.mant, 0 - value_.exp)
        all == BigDigits(whole)
        point == IF value_.exp >= 0 THEN 0 ELSE value_.exp
        d == RoundTo6(all, Len(all) - 1 + point)
        ds == d.ds
        len == Len(ds)
        X == d.X
        absX == IF X < 0 THEN 0 - X ELSE X
        expo == <<"e", IF X < 0 THEN "-" ELSE "+">>
                \o (IF absX < 10 THEN <<"0">> ELSE <<>>) \o DigitsOf(absX)
        body == IF value_.mant = <<>> THEN <<"0">>
                ELSE IF X < 0 - 4 \/ X >= 6
                THEN <<ds[1]>>
                     \o (IF len > 1 THEN <<".">> \o Tail(ds) ELSE <<>>)
                     \o expo
                ELSE IF X >= len - 1 THEN ds \o Zeros(X - (len - 1))
                ELSE IF X >= 0
                THEN SubSeq(ds, 1, X + 1) \o <<".">> \o SubSeq(ds, X + 2, len)
                ELSE <<"0", ".">> \o Zeros(0 - X - 1) \o ds
    IN  (IF value_.neg THEN <<"-">> ELSE <<>>) \o body

\* indent(out, depth)
RECURSIVE indent(_)
indent(depth) == IF depth <= 0 THEN <<>> ELSE <<"\t">> \o indent(depth - 1)

\* write(out, depth) of the six classes: the texts the call may put on
\* out.  There is one, but for an object with several entries, which are
\* written in the iteration order of the unordered_map: any order.
RECURSIVE write(_, _), WriteElems(_, _), WriteEntries(_, _, _)
write(v, depth) ==
    CASE v.type = "NIL" -> {<<"n", "u", "l", "l">>}
      [] v.type = "STRING" -> {write_string(v.str)}
      [] v.type = "NUMBER" -> {WriteDouble(v.num)}
      [] v.type = "BOOL" ->
            {IF v.bool THEN <<"t", "r", "u", "e">>
             ELSE <<"f", "a", "l", "s", "e">>}
      [] v.type = "ARRAY" ->
            IF v.elems = <<>> THEN {<<"[", "]">>}
            ELSE {<<"[">> \o body \o <<"\n">> \o indent(depth) \o <<"]">> :
                    body \in WriteElems(v.elems, depth)}
      [] v.type = "OBJECT" ->
            IF v.members = {} THEN {<<"{", "}">>}
            ELSE {<<"{", "\n">> \o body \o <<"\n">> \o indent(depth)
                    \o <<"}">> :
                    body \in WriteEntries(v.members, depth, TRUE)}

\* the loop of JsonArray::write
WriteElems(elems, depth) ==
    IF elems = <<>> THEN {<<>>}
    ELSE {<<"\n">> \o indent(depth) \o indent(depth) \o one \o more :
            one \in write(Head(elems), depth + 1),
            more \in WriteElems(Tail(elems), depth)}

\* the loop of JsonObject::write
WriteEntries(members, depth, first_ele) ==
    IF members = {} THEN {<<>>}
    ELSE UNION {
           {(IF first_ele THEN <<>> ELSE <<",", "\n">>)
              \o indent(depth + 1) \o write_string(it[1]) \o <<":", " ">>
              \o one \o more :
              one \in write(it[2], depth + 1),
              more \in WriteEntries(members \ {it}, depth, FALSE)} :
           it \in members}

\* "Could not write to file " + filename
MsgCouldNotWrite(filename) ==
    <<"C", "o", "u", "l", "d", " ", "n", "o", "t", " ", "w", "r", "i", "t",
      "e", " ", "t", "o", " ", "f", "i", "l", "e", " ">> \o filename

\* write_to_file(filename): what the file holds afterwards, or the failure
write_to_file(v, filename, writable) ==
    IF ~writable
    THEN {[kind |-> "error", err |-> "CannotWrite",
           what |-> MsgCouldNotWrite(filename)]}
    ELSE {[kind |-> "written", out |-> w] : w \in write(v, 0)}

(***************************************************************************)
(* The accessors.  JsonNode throws from every one of them; each subclass   *)
(* overrides the one of its own payload.                                   *)
(***************************************************************************)
get_type(v) == v.type

Ref(payload) == [kind |-> "value", ref |-> payload]

TypeMismatch(what) == [kind |-> "error", what |-> what]

\* a get_string that answers an empty string where the code throws
get_string_NoThrow(v) ==
    IF v.type = "STRING" THEN Ref(v.str) ELSE Ref(<<>>)

get_string(v) ==
    IF v.type = "STRING" THEN Ref(v.str) ELSE TypeMismatch("not a string")

get_double(v) ==
    IF v.type = "NUMBER" THEN Ref(v.num) ELSE TypeMismatch("not a double")

get_bool(v) ==
    IF v.type = "BOOL" THEN Ref(v.bool) ELSE TypeMismatch("not a bool")

get_vector(v) ==
    IF v.type = "ARRAY" THEN Ref(v.elems) ELSE TypeMismatch("not an array")

get_object(v) ==
    IF v.type = "OBJECT" THEN Ref(v.members)
    ELSE TypeMismatch("not an object")

Accessors ==
    {"get_string", "get_double", "get_bool", "get_vector", "get_object"}

Accessor(a, v) ==
    CASE a = "get_string" -> get_string(v)
      [] a = "get_double" -> get_double(v)
      [] a = "get_bool" -> get_bool(v)
      [] a = "get_vector" -> get_vector(v)
      [] a = "get_object" -> get_object(v)

(***************************************************************************)
(* The inputs of a run.  Each family of inputs is built from parts, so     *)
(* that what a text is made of is known without parsing it.                *)
(***************************************************************************)
SeqsUpTo(S, n) == UNION {[1..k -> S] : k \in 0..n}

RECURSIVE Concat(_)
Concat(parts) ==
    IF parts = <<>> THEN <<>> ELSE Head(parts) \o Concat(Tail(parts))

\* parts joined by a separator
RECURSIVE Join(_, _)
Join(parts, sep) ==
    IF parts = <<>> THEN <<>>
    ELSE IF Len(parts) = 1 THEN Head(parts)
    ELSE Head(parts) \o sep \o Join(Tail(parts), sep)

Arg(fam) ==
    [fam |-> fam, body |-> <<>>, toks |-> <<>>, elems |-> <<>>,
     pairs |-> <<>>, pre |-> <<>>, num |-> <<>>, rest |-> <<>>,
     wraps |-> <<>>, bad |-> <<>>, text |-> <<>>, value |-> JsonNode,
     openable |-> TRUE]

\* quoted strings: a body between two quotes
BodyChars == {"a", "n", "\\", "\""}

QuotedArgs ==
    {[Arg("quoted") EXCEPT !.body = b] : b \in SeqsUpTo(BodyChars, MaxBody)}

\* token sequences
Tokens ==
    {<<"{">>, <<"}">>, <<"[">>, <<"]">>, <<":">>, <<" ">>, <<",">>, <<"1">>,
     <<"\"", "a", "\"">>, <<"t", "r", "u", "e">>}

\* the tokens of {"a":[""],":":"x"}
ExStringInArray ==
    << <<"{">>, <<"\"", "a", "\"">>, <<":">>, <<"[">>, <<"\"", "\"">>,
       <<"]">>, <<",">>, <<"\"", ":", "\"">>, <<":">>, <<"\"", "x", "\"">>,
       <<"}">> >>

TokenArgs ==
    {[Arg("tokens") EXCEPT !.toks = t] :
        t \in SeqsUpTo(Tokens, MaxTokens) \cup {ExStringInArray}}

\* arrays: a list of elements separated by commas
ElemText(k) ==
    CASE k = "objx" -> <<"{", "\"", "x", "\"", ":", "1", "}">>
      [] k = "objy" -> <<"{", "\"", "y", "\"", ":", "2", "}">>
      [] k = "objarr" -> <<"{", "\"", "a", "\"", ":", "[", "1", "]", "}">>
      [] k = "objnest" ->
            <<"{", "\"", "a", "\"", ":", "[", "1", ",", "2", ",",
              "{", "\"", "q", "\"", ":", "1", "}", "]", "}">>
      [] k = "objplus" -> <<"{", "\"", "a", "\"", ":", "1", "e", "+", "5", "}">>
      [] k = "objobjs" ->
            <<"{", "\"", "a", "\"", ":", "[",
              "{", "\"", "q", "\"", ":", "1", "}", "]", "}">>
      [] k = "num" -> <<"1">>
      [] k = "str" -> <<"\"", "a", "\"">>
      [] k = "arr" -> <<"[", "]">>

ElemKinds ==
    {"objx", "objy", "objarr", "objnest", "objplus", "objobjs",
     "num", "str", "arr"}

ArrayArgs ==
    {[Arg("array") EXCEPT !.elems = e] : e \in SeqsUpTo(ElemKinds, MaxElems)}

\* objects: a list of "key": value entries separated by ", "
Keys == {<<"a">>, <<"b">>}

ValText(k) ==
    CASE k = "one" -> <<"1">>
      [] k = "two" -> <<"2">>
      [] k = "str" -> <<"\"", "s", "\"">>
      [] k = "arrobj" -> <<"[", "{", "\"", "x", "\"", ":", "1", "}", "]">>
      [] k = "arrnum" -> <<"[", "1", "]">>
      [] k = "plus" -> <<"1", "e", "+", "5">>

ValKinds == {"one", "two", "str", "arrobj", "arrnum", "plus"}

EntryText(p) == <<"\"">> \o p[1] \o <<"\"", ":", " ">> \o ValText(p[2])

ObjectArgs ==
    {[Arg("object") EXCEPT !.pairs = ps] :
        ps \in SeqsUpTo(Keys \X ValKinds, MaxElems)}

\* texts that are read token by token, as lists of tokens: values built
\* from numerals, strings, true, false, null, objects and arrays of
\* objects, the entries and elements set side by side or separated by a
\* comma or a blank
ClassAtoms ==
    {<<"1">>, <<"-", "2", ".", "5", "e", "1">>, <<"\"", "s", "\"">>,
     <<"t", "r", "u", "e">>, <<"f", "a", "l", "s", "e">>,
     <<"n", "u", "l", "l">>}

ClassSeps == {<<>>, << <<",">> >>, << <<" ">> >>}

ClassEntry(k, v) == << <<"\"">> \o k \o <<"\"">>, <<":">> >> \o v

ClassObject(es, sep) == << <<"{">> >> \o Join(es, sep) \o << <<"}">> >>

ClassArray(os, sep) == << <<"[">> >> \o Join(os, sep) \o << <<"]">> >>

ClassFlatEntries == {ClassEntry(k, <<a>>) : k \in Keys, a \in ClassAtoms}

ClassFlatObjects ==
    {ClassObject(es, sep) :
        es \in SeqsUpTo(ClassFlatEntries, MaxEntries), sep \in ClassSeps}

ClassSmallObjects ==
    {ClassObject(<<>>, <<>>),
     ClassObject(<<ClassEntry(<<"a">>, << <<"1">> >>)>>, <<>>),
     ClassObject(<<ClassEntry(<<"b">>, << <<"\"", "s", "\"">> >>)>>, <<>>)}

ClassArrays ==
    {ClassArray(os, sep) :
        os \in SeqsUpTo(ClassSmallObjects, MaxEntries), sep \in ClassSeps}

ClassNested ==
    {ClassObject(<<ClassEntry(<<"a">>, arr)>> \o more, sep) :
        arr \in ClassArrays,
        more \in {<<>>, <<ClassEntry(<<"b">>, << <<"1">> >>)>>},
        sep \in ClassSeps}

ClassDeep ==
    {ClassArray(<<ClassObject(<<ClassEntry(<<"b">>, arr)>>, <<>>)>>, <<>>) :
        arr \in ClassArrays}

ClassArgs ==
    {[Arg("class") EXCEPT !.toks = t] :
        t \in {<<a>> : a \in ClassAtoms} \cup ClassFlatObjects
              \cup ClassArrays \cup ClassNested \cup ClassDeep}

\* numerals: a first character, more characters of the numeric scan, and
\* what follows the numeral, after nothing or after the start of an object
NumChars == {"4", "2", "-", ".", "e", ","}

NumRests == {<<>>, <<"}">>, <<" ", "2">>, <<"x", "4">>, <<"]", ",">>}

NumberArgs ==
    {[Arg("number") EXCEPT !.pre = p, !.num = <<f>> \o n, !.rest = r] :
        p \in {<<>>, <<"{", "\"", "a", "\"", ":">>},
        f \in {"4", "2", "-"},
        n \in SeqsUpTo(NumChars, MaxElems - 1),
        r \in NumRests}

\* files: a text that fails to parse (or parses), inside enclosing values
WrapText(w) ==
    CASE w = "obj" -> <<"{", "\"", "a", "\"", ":">>
      [] w = "arrobj" -> <<"[", "{", "\"", "b", "\"", ":">>
      [] w = "sib" -> <<"{", "\"", "a", "\"", ":", "1", ",", "\"", "b", "\"",
                        ":">>

Wraps == {"obj", "arrobj", "sib"}

BadTexts ==
    {<<"t", "r", "x">>, <<"f", "a", "l", "s">>, <<"n", "u", "l">>,
     <<"!">>, <<"x">>, <<"{", "\"", "k", "\"", " ", "1", "}">>}

GoodTexts == {<<"1">>, <<"t", "r", "u", "e">>, <<>>}

FileArgs ==
    {[Arg("file") EXCEPT !.wraps = w, !.bad = b, !.openable = o] :
        w \in SeqsUpTo(Wraps, MaxElems),
        b \in BadTexts \cup GoodTexts,
        o \in BOOLEAN}

\* the texts the specification's examples name
ExLines ==
    <<"\"", "l", "i", "n", "e", "1", "\\", "n", "l", "i", "n", "e", "2",
      "\"">>

ExNumbers == <<"[", "1", ",", "2", ",", "3", "]">>

ExObjects ==
    <<"[", "{", "\"", "x", "\"", ":", "1", "}", ",",
      "{", "\"", "y", "\"", ":", "2", "}", "]">>

ExCommas == <<"{", ",", "\"", "a", "\"", ":", " ", "1", ",", "}">>

ExNoCommas == <<"{", "\"", "a", "\"", ":", " ", "1", "}">>

ExDuplicate ==
    <<"{", "\"", "a", "\"", ":", " ", "1", ",", " ",
      "\"", "a", "\"", ":", " ", "2", "}">>

ExFortyTwo == <<"{", "\"", "a", "\"", ":", "4", "2", "}">>

ExampleArgs ==
    {[Arg("example") EXCEPT !.text = t] :
        t \in {ExLines, ExNumbers, ExObjects, ExCommas, ExNoCommas,
               ExDuplicate, ExFortyTwo}}

\* constructed values without children
PayloadChars == {"a", "\"", "\\", "\n"}

FlatValues ==
    {JsonNode, JsonBool(TRUE), JsonBool(FALSE)}
    \cup {JsonString(c) : c \in SeqsUpTo(PayloadChars, MaxPayload)}
    \cup {JsonDouble(d) :
            d \in {Double(FALSE, 0, 0), Double(FALSE, 1, 0),
                   Double(FALSE, 42, 0), Double(TRUE, 7, 0),
                   Double(FALSE, 5, 0 - 1), Double(FALSE, 125, 0 - 2),
                   Double(FALSE, 999999, 0), Double(FALSE, 1, 0 - 5),
                   Double(FALSE, 1, 6), Double(FALSE, 1234567, 0)}}

\* constructed values with children
TreeValues ==
    {JsonArray(<<>>), JsonArray(<<JsonNode, JsonBool(TRUE)>>),
     JsonArray(<<JsonObject({<<<<"a">>, JsonDouble(Double(FALSE, 1, 0))>>}),
                 JsonObject({})>>),
     JsonObject({}), JsonObject({<<<<"a">>, JsonDouble(Double(FALSE, 1, 0))>>}),
     JsonObject({<<<<"a">>, JsonArray(<<>>)>>, <<<<"b">>, JsonNode>>})}

ValueArgs ==
    {[Arg("value") EXCEPT !.value = v] : v \in FlatValues \cup TreeValues}

TextOf(a) ==
    CASE a.fam = "quoted" -> <<"\"">> \o a.body \o <<"\"">>
      [] a.fam \in {"tokens", "class"} -> Concat(a.toks)
      [] a.fam = "array" ->
            <<"[">> \o Join([i \in 1..Len(a.elems) |-> ElemText(a.elems[i])],
                            <<",">>) \o <<"]">>
      [] a.fam = "object" ->
            <<"{">> \o Join([i \in 1..Len(a.pairs) |-> EntryText(a.pairs[i])],
                            <<",", " ">>) \o <<"}">>
      [] a.fam = "number" -> a.pre \o a.num \o a.rest
      [] a.fam = "file" ->
            Concat([i \in 1..Len(a.wraps) |-> WrapText(a.wraps[i])]) \o a.bad
      [] a.fam = "example" -> a.text
      [] OTHER -> <<>>

(***************************************************************************)
(* The state: the caller's input, the stream's text, the outcome of the    *)
(* last parse, the value the caller holds, the text of the last write,     *)
(* the last accessor call, and the read_string loop followed step by step. *)
(***************************************************************************)
VARIABLES pc, arg, text, result, node, out, call, rs

vars == <<pc, arg, text, result, node, out, call, rs>>

NoResult == [kind |-> "none"]

NoCall == [acc |-> "none"]

NoLoop == [at |-> "none"]

\* what a read beyond the 40 bytes of the message literal finds: the bytes
\* that the build has put there, up to the next 0 byte.  The source does
\* not say which (builds give none, text of other literals, bytes that are
\* no text), so the message is not a text of the model: "BEYOND" stands
\* for a run of unknown bytes, and the two outcomes are a message that
\* does not hold the letter the parser met and one that does.
OutOfBoundsReads(letter) == {<<"BEYOND">>, <<"BEYOND", letter, "BEYOND">>}

\* the outcomes of a call: where the message of an error was read out of
\* bounds (the letter being the last character read from the stream),
\* one outcome for each thing the read may find
Outcomes(r) ==
    IF r.kind = "error" /\ r.ub
    THEN {[r EXCEPT !.what = garbage] :
            garbage \in OutOfBoundsReads(r.in.buf[r.in.pos])}
    ELSE {r}

StreamFams ==
    {"quoted", "tokens", "class", "array", "object", "number", "example"}

Rest ==
    /\ text = <<>>
    /\ result = NoResult
    /\ node = JsonNode
    /\ out = <<>>
    /\ call = NoCall
    /\ rs = NoLoop

Init ==
    /\ pc = "start"
    /\ \/ arg \in QuotedArgs
       \/ arg \in TokenArgs
       \/ arg \in ClassArgs
       \/ arg \in ArrayArgs
       \/ arg \in ObjectArgs
       \/ arg \in NumberArgs
       \/ arg \in ExampleArgs
       \/ arg \in FileArgs
       \/ arg \in ValueArgs
    /\ Rest

\* auto v = parse_json(in) on a stream holding the input's text
ParseStream ==
    /\ pc = "start"
    /\ arg.fam \in StreamFams
    /\ result' \in Outcomes(parse_json(IStream(TextOf(arg))))
    /\ text' = TextOf(arg)
    /\ node' = IF result'.kind = "value" THEN result'.value ELSE node
    /\ pc' = "parsed"
    /\ UNCHANGED <<arg, out, call, rs>>

\* auto v = parse_json(filename)
ParseFile ==
    /\ pc = "start"
    /\ arg.fam = "file"
    /\ result' \in Outcomes(parse_json_file(arg.openable, TextOf(arg)))
    /\ text' = IF arg.openable THEN TextOf(arg) ELSE <<>>
    /\ node' = IF result'.kind = "value" THEN result'.value ELSE node
    /\ pc' = "parsed"
    /\ UNCHANGED <<arg, out, call, rs>>

\* the caller constructs a value
Construct ==
    /\ pc = "start"
    /\ arg.fam = "value"
    /\ node' = arg.value
    /\ pc' = "built"
    /\ UNCHANGED <<arg, text, result, out, call, rs>>

\* node->write(out)
Write ==
    /\ pc \in {"parsed", "built"}
    /\ pc = "parsed" => result.kind = "value"
    /\ out' \in write(node, 0)
    /\ pc' = "written"
    /\ UNCHANGED <<arg, text, result, node, call, rs>>

\* the name of the file written
FileName == <<"o", ".", "j", "s", "o", "n">>

\* node->write_to_file(filename), the file opening for writing or not
WriteToFile ==
    /\ pc \in {"parsed", "built"}
    /\ pc = "parsed" => result.kind = "value"
    /\ \E writable \in BOOLEAN :
          \E w \in write_to_file(node, FileName, writable) :
             /\ call' = [acc |-> "write_to_file", on |-> node,
                         outcome |-> w]
             /\ out' = IF w.kind = "written" THEN w.out ELSE out
             /\ pc' = IF w.kind = "written" THEN "written" ELSE "failed"
    /\ UNCHANGED <<arg, text, result, node, rs>>

\* parse_json on a stream holding what was written
Reparse ==
    /\ pc = "written"
    /\ result' \in Outcomes(parse_json(IStream(out)))
    /\ text' = out
    /\ pc' = "reparsed"
    /\ UNCHANGED <<arg, node, out, call, rs>>

Next ==
    ParseStream \/ ParseFile \/ Construct \/ Write \/ WriteToFile \/ Reparse

Spec == Init /\ [][Next]_vars


(***************************************************************************)
(* The accessors called on a constructed value.                            *)
(***************************************************************************)
InitAccess ==
    /\ pc = "start"
    /\ arg \in ValueArgs
    /\ Rest

\* node->get_type()
GetType ==
    /\ pc = "built"
    /\ call' = [acc |-> "get_type", on |-> node,
                outcome |-> [kind |-> "value", ref |-> get_type(node)]]
    /\ pc' = "called"
    /\ UNCHANGED <<arg, text, result, node, out, rs>>

\* node->get_string(), get_double(), get_bool(), get_vector(), get_object()
Access ==
    /\ pc = "built"
    /\ \E a \in Accessors :
          call' = [acc |-> a, on |-> node, outcome |-> Accessor(a, node)]
    /\ pc' = "called"
    /\ UNCHANGED <<arg, text, result, node, out, rs>>

NextAccess == Construct \/ GetType \/ Access

SpecAccess == InitAccess /\ [][NextAccess]_vars

(***************************************************************************)
(* read_string followed one loop iteration at a time, on a stream that     *)
(* holds what follows an opening quote.                                    *)
(***************************************************************************)
InitLoop ==
    /\ pc = "start"
    /\ arg \in QuotedArgs
    /\ text = arg.body
    /\ result = NoResult
    /\ node = JsonNode
    /\ out = <<>>
    /\ call = NoCall
    /\ rs = NoLoop

\* char letter = in.get();
EnterReadString ==
    /\ pc = "start"
    /\ rs' = [at |-> "while"] @@ read_string_enter(IStream(text))
    /\ pc' = "read_string"
    /\ UNCHANGED <<arg, text, result, node, out, call>>

\* the loop test succeeds and the body runs once
IterateReadString ==
    /\ pc = "read_string"
    /\ rs.letter # "\""
    /\ Len(rs.collected) < MaxCollected
    /\ rs' = [at |-> "while"] @@ read_string_body(rs)
    /\ UNCHANGED <<pc, arg, text, result, node, out, call>>

\* the loop test fails: return collected
ReturnReadString ==
    /\ pc = "read_string"
    /\ rs.letter = "\""
    /\ result' = [kind |-> "value", str |-> rs.collected, in |-> rs.in]
    /\ pc' = "returned"
    /\ UNCHANGED <<arg, text, node, out, call, rs>>

NextLoop == EnterReadString \/ IterateReadString \/ ReturnReadString

SpecLoop == InitLoop /\ [][NextLoop]_vars

(***************************************************************************)
(* What the claims speak of.                                               *)
(***************************************************************************)
\* an outcome without the stream; the text of a message read out of bounds
\* is not part of it
Verdict(o) ==
    IF o.kind = "value" THEN [kind |-> "value", value |-> o.value]
    ELSE IF o.kind = "error"
    THEN [kind |-> "error", err |-> o.err, ub |-> o.ub,
          what |-> IF o.ub THEN <<>> ELSE o.what]
    ELSE [kind |-> o.kind]

Parsed(fam) == pc = "parsed" /\ arg.fam = fam

Num(n) == JsonDouble(Double(FALSE, n, 0))

\* the string a quoted text denotes when every backslash takes exactly the
\* one character after it: where the closing quote is, and what was read
RECURSIVE Unescape(_, _, _)
Unescape(t, i, acc) ==
    IF i > Len(t) THEN [closed |-> FALSE, str |-> acc, pos |-> i]
    ELSE IF t[i] = "\"" THEN [closed |-> TRUE, str |-> acc, pos |-> i]
    ELSE IF t[i] # "\\" THEN Unescape(t, i + 1, Append(acc, t[i]))
    ELSE IF i + 1 > Len(t) THEN [closed |-> FALSE, str |-> acc, pos |-> i]
    ELSE Unescape(t, i + 2,
                  IF t[i + 1] = "\"" THEN Append(acc, "\"")
                  ELSE IF t[i + 1] = "n" THEN Append(acc, "\n")
                  ELSE IF t[i + 1] = "\\" THEN Append(acc, "\\")
                  ELSE acc)

\* C1: a quoted string is read up to its first unescaped quote, each
\* backslash taking exactly one character (\" gives ", \n a newline, \\ a
\* backslash, any other one is dropped) and all other characters kept; the
\* text "line1\nline2" gives line1<newline>line2, which is written with
\* the two characters \n again.
C1_EscapesTakeOneCharacter ==
    /\ (pc = "parsed" /\ arg.fam \in {"quoted", "example"}
            /\ Head(text) = "\"" /\ Unescape(text, 2, <<>>).closed)
        => /\ result.kind = "value"
           /\ result.value = JsonString(Unescape(text, 2, <<>>).str)
           /\ result.in.pos = Unescape(text, 2, <<>>).pos
    /\ (pc = "parsed" /\ text = ExLines)
        => /\ result.kind = "value"
           /\ result.value =
                JsonString(<<"l", "i", "n", "e", "1", "\n",
                             "l", "i", "n", "e", "2">>)
    /\ (pc = "written" /\ text = ExLines) => out = ExLines

IsFlat(v) == v.type \in {"NIL", "STRING", "NUMBER", "BOOL"}

\* two values without children of the same variant with equal payloads
\* (0 and -0 are equal doubles)
SameFlat(v, w) ==
    /\ v.type = w.type
    /\ v.type = "STRING" => v.str = w.str
    /\ v.type = "BOOL" => v.bool = w.bool
    /\ v.type = "NUMBER" => /\ v.num.mant = w.num.mant
                            /\ v.num.exp = w.num.exp
                            /\ v.num.mant # <<>> => v.num.neg = w.num.neg

\* C2: parsing what write produced for a String, Number, Boolean or Null
\* value gives a value of the same variant with an equal payload.
C2_FlatRoundTrip ==
    (pc = "reparsed" /\ IsFlat(node))
    => /\ result.kind = "value"
       /\ SameFlat(result.value, node)

\* C3: once the stream has reached its end no loop of the parser iterates
\* again: read_string's loop is left by the next step.
C3_NoIterationAfterEndOfStream ==
    [][(pc = "read_string" /\ rs.in.fail) => pc' # "read_string"]_vars

\* the parse of a value's text consumes the text completely: it returns
\* with the stream right after the text, whatever follows
ConsumedWhole(e) ==
    LET r == parse_json(IStream(e \o <<" ">>)) IN
    r.kind = "value" /\ r.in.pos = Len(e) /\ ~r.in.fail

\* the value the text of an object element parses to
ElemValue(k) ==
    CASE k = "objx" -> JsonObject({<<<<"x">>, Num(1)>>})
      [] k = "objy" -> JsonObject({<<<<"y">>, Num(2)>>})
      [] k = "objarr" -> JsonObject({<<<<"a">>, JsonArray(<<>>)>>})
      [] k = "objnest" -> JsonObject({<<<<"a">>, JsonArray(<<>>)>>})
      [] k = "objplus" -> JsonObject({<<<<"a">>, Num(0)>>})
      [] k = "objobjs" ->
            JsonObject({<<<<"a">>,
                          JsonArray(<<JsonObject({<<<<"q">>, Num(1)>>})>>)>>})

IsObjectKind(k) ==
    k \in {"objx", "objy", "objarr", "objnest", "objplus", "objobjs"}

\* the number of object elements before the first element that is no
\* object
RECURSIVE RunLength(_)
RunLength(elems) ==
    IF elems = <<>> \/ ~IsObjectKind(Head(elems)) THEN 0
    ELSE 1 + RunLength(Tail(elems))

\* the object elements before the first element that is no object
LeadingRun(elems) ==
    [i \in 1..RunLength(elems) |-> ElemValue(elems[i])]

\* where in the text of an array the character stands that follows its
\* leading run of k object elements: the first character of the first
\* element that is no object, or the ] of the array
StopPos(elems, k) ==
    Len(<<"[">>
        \o Join([i \in 1..k |-> ElemText(elems[i])], <<",">>)
        \o (IF k > 0 /\ k < Len(elems) THEN <<",">> ELSE <<>>))
    + 1

ArrayOf(kinds) == [Arg("array") EXCEPT !.elems = kinds]

C4_Examples ==
    /\ (pc = "parsed" /\ text = ExNumbers)
        => Verdict(result) = [kind |-> "value", value |-> JsonArray(<<>>)]
    /\ (pc = "parsed" /\ text = ExObjects)
        => Verdict(result) =
             [kind |-> "value",
              value |-> JsonArray(<<ElemValue("objx"), ElemValue("objy")>>)]

\* C4 as stated: the array parsed holds exactly the leading run of object
\* elements, in input order; [1,2,3] gives the empty array and
\* [{"x":1},{"y":2}] the objects {x:1} and {y:2}.
C4_LeadingRunOfObjects ==
    /\ Parsed("array")
        => Verdict(result) =
             [kind |-> "value", value |-> JsonArray(LeadingRun(arg.elems))]
    /\ C4_Examples

\* C4 as amended: when the parse of every object of the leading run
\* consumes that object's text completely, the array parsed holds exactly
\* the leading run, in input order, and the stream stands right after the
\* character that stopped the loop (it is consumed).  An object that is
\* not consumed completely lets the loop go on from where its parse
\* stopped: [{"a":[1]},{"x":1}] gives [{a:[]}],
\* [{"a":[1,2,{"q":1}]},{"x":1}] gives [{a:[]},{q:1}] and
\* [{"a":1e+5},{"x":1}] gives [{a:0}].
C4_RunOfConsumedObjects ==
    /\ (Parsed("array")
            /\ \A i \in 1..RunLength(arg.elems) :
                  ConsumedWhole(ElemText(arg.elems[i])))
        => /\ Verdict(result) =
                [kind |-> "value",
                 value |-> JsonArray(LeadingRun(arg.elems))]
           /\ result.in.pos = StopPos(arg.elems, RunLength(arg.elems))
           /\ ~result.in.fail
    /\ (pc = "parsed" /\ arg = ArrayOf(<<"objarr", "objx">>))
        => /\ result.kind = "value"
           /\ result.value = JsonArray(<<ElemValue("objarr")>>)
    /\ (pc = "parsed" /\ arg = ArrayOf(<<"objnest", "objx">>))
        => /\ result.kind = "value"
           /\ result.value =
                JsonArray(<<JsonObject({<<<<"a">>, JsonArray(<<>>)>>}),
                            JsonObject({<<<<"q">>, Num(1)>>})>>)
    /\ (pc = "parsed" /\ arg = ArrayOf(<<"objplus", "objx">>))
        => /\ result.kind = "value"
           /\ result.value = JsonArray(<<JsonObject({<<<<"a">>, Num(0)>>})>>)
    /\ C4_Examples

C4_Witness ==
    /\ Parsed("array")
    /\ arg.elems = <<"objy", "objobjs", "num">>
    /\ ConsumedWhole(ElemText("objobjs"))
    /\ ~ConsumedWhole(ElemText("objnest"))
    /\ result.kind = "value"
    /\ Len(result.value.elems) = 2
    /\ result.in.buf[result.in.pos] = "1"

IsNumTok(t) == t = <<"1">>

\* a place between two tokens (or before the first, or after the last)
\* that does not lie inside a numeral
LexGap(toks, p) ==
    ~(p >= 1 /\ p < Len(toks) /\ IsNumTok(toks[p]) /\ IsNumTok(toks[p + 1]))

WithComma(toks, p) ==
    Concat(SubSeq(toks, 1, p)) \o <<",">>
    \o Concat(SubSeq(toks, p + 1, Len(toks)))

C5_Examples ==
    (pc = "parsed" /\ text \in {ExCommas, ExNoCommas})
    => Verdict(result) =
         [kind |-> "value", value |-> JsonObject({<<<<"a">>, Num(1)>>})]

\* C5 as stated: a comma put between two tokens of a text (or before the
\* first, or after the last) does not change what the text parses to;
\* {,"a": 1,} and {"a": 1} both give the object with the one key a mapped
\* to 1.
C5_CommasAreInsignificant ==
    /\ Parsed("tokens")
        => \A p \in 0..Len(arg.toks) :
              LexGap(arg.toks, p)
              => Verdict(parse_json(IStream(WithComma(arg.toks, p))))
                 = Verdict(result)
    /\ C5_Examples

\* C5 as amended: in a text that is read token by token (a value built
\* from numerals, strings, true, false, null, objects and arrays whose
\* elements are all objects) a comma put between two tokens, before the
\* first or after the last does not change the value parsed; {,"a": 1,}
\* and {"a": 1} both give the object with the one key a mapped to 1.
C5_CommasInTokenwiseTexts ==
    /\ Parsed("class")
        => /\ result.kind = "value"
           /\ \A p \in 0..Len(arg.toks) :
                 Verdict(parse_json(IStream(WithComma(arg.toks, p))))
                 = Verdict(result)
    /\ C5_Examples

C5_Witness ==
    /\ Parsed("class")
    /\ arg.toks =
         ClassObject(<<ClassEntry(<<"a">>,
                         ClassArray(<<ClassObject(<<ClassEntry(<<"b">>,
                                          << <<"\"", "s", "\"">> >>)>>,
                                        <<>>)>>, <<>>)),
                       ClassEntry(<<"b">>, << <<"1">> >>)>>, << <<",">> >>)
    /\ result.kind = "value"
    /\ result.value =
         JsonObject({<<<<"a">>,
                       JsonArray(<<JsonObject({<<<<"b">>,
                                                 JsonString(<<"s">>)>>})>>)>>,
                     <<<<"b">>, Num(1)>>})
    /\ parse_json(IStream(WithComma(arg.toks, 10))).in.pos
         = result.in.pos + 1

\* C6: the number parser takes the characters of the numeric scan and
\* ungets the one character that ended it: the next read returns that
\* character, nothing after it was consumed, and the object around the
\* number reads it next; the value in {"a":42} is 42 and the } after it
\* closes the object.
C6_NumberScanPushesBack ==
    /\ (Parsed("number") /\ arg.pre = <<>>)
        => /\ result.kind = "value"
           /\ result.value.type = "NUMBER"
           /\ result.in.pos = Len(arg.num)
           /\ Get(result.in).c =
                (IF arg.rest = <<>> THEN "EOF" ELSE Head(arg.rest))
    /\ (Parsed("number") /\ arg.pre # <<>> /\ arg.rest # <<>>
            /\ Head(arg.rest) # " ")
        => /\ result.kind = "value"
           /\ result.value.type = "OBJECT"
           /\ result.in.pos = Len(arg.pre) + Len(arg.num) + 1
    /\ (pc = "parsed" /\ text = ExFortyTwo)
        => /\ Verdict(result) =
                [kind |-> "value",
                 value |-> JsonObject({<<<<"a">>, Num(42)>>})]
           /\ result.in.pos = Len(ExFortyTwo)
           /\ ~result.in.fail

C6_Witness ==
    /\ Parsed("number")
    /\ arg.pre = <<>>
    /\ arg.num = <<"4", "2">>
    /\ arg.rest = <<"}">>
    /\ result.value = Num(42)
    /\ Get(result.in).c = "}"

UniqueKeys(members) ==
    \A p \in members : \A q \in members : p[1] = q[1] => p = q

\* the value the text of an entry's value parses to
ValValue(k) ==
    CASE k = "one" -> Num(1)
      [] k = "two" -> Num(2)
      [] k = "str" -> JsonString(<<"s">>)
      [] k = "arrobj" -> JsonArray(<<JsonObject({<<<<"x">>, Num(1)>>})>>)
      [] k = "arrnum" -> JsonArray(<<>>)
      [] k = "plus" -> Num(0)

\* the value of the last entry of the list with key k
RECURSIVE LastValue(_, _)
LastValue(pairs, k) ==
    IF pairs[Len(pairs)][1] = k
    THEN ValValue(pairs[Len(pairs)][2])
    ELSE LastValue(SubSeq(pairs, 1, Len(pairs) - 1), k)

LastWrites(pairs) ==
    {<<k, LastValue(pairs, k)>> : k \in {pairs[i][1] : i \in 1..Len(pairs)}}

ObjectOf(pairs) == [Arg("object") EXCEPT !.pairs = pairs]

C7_UniqueKeys ==
    /\ (pc = "parsed" /\ result.kind = "value"
            /\ result.value.type = "OBJECT")
        => UniqueKeys(result.value.members)
    /\ (pc = "parsed" /\ text = ExDuplicate)
        => Verdict(result) =
             [kind |-> "value", value |-> JsonObject({<<<<"a">>, Num(2)>>})]

\* C7 as stated: an object parsed has at most one entry per key, and a
\* key that occurs several times is mapped to the value of its last
\* occurrence; {"a": 1, "a": 2} gives the one key a mapped to 2.
C7_LastWriteWins ==
    /\ Parsed("object")
        => /\ result.kind = "value"
           /\ result.value.type = "OBJECT"
           /\ result.value.members = LastWrites(arg.pairs)
    /\ C7_UniqueKeys

\* C7 as amended: an object parsed has at most one entry per key; when
\* the parse of every entry's value consumes that value's text
\* completely, each key is mapped to the value of its last occurrence;
\* {"a": 1, "a": 2} gives the one key a mapped to 2.  A value that is not
\* consumed completely ends the object where its parse stopped:
\* {"a": [1], "a": 2} gives {a:[]} and {"a": 1e+5, "a": 2} gives {a:0}.
C7_LastWholeWriteWins ==
    /\ (Parsed("object")
            /\ \A i \in 1..Len(arg.pairs) :
                  ConsumedWhole(ValText(arg.pairs[i][2])))
        => /\ result.kind = "value"
           /\ result.value.type = "OBJECT"
           /\ result.value.members = LastWrites(arg.pairs)
    /\ (pc = "parsed"
            /\ arg = ObjectOf(<<<<<<"a">>, "arrnum">>, <<<<"a">>, "two">>>>))
        => /\ result.kind = "value"
           /\ result.value = JsonObject({<<<<"a">>, JsonArray(<<>>)>>})
    /\ (pc = "parsed"
            /\ arg = ObjectOf(<<<<<<"a">>, "plus">>, <<<<"a">>, "two">>>>))
        => /\ result.kind = "value"
           /\ result.value = JsonObject({<<<<"a">>, Num(0)>>})
    /\ C7_UniqueKeys

C7_Witness ==
    /\ Parsed("object")
    /\ arg.pairs = <<<<<<"a">>, "one">>, <<<<"b">>, "arrobj">>,
                     <<<<"a">>, "str">>>>
    /\ \A i \in 1..3 : ConsumedWhole(ValText(arg.pairs[i][2]))
    /\ ~ConsumedWhole(ValText("arrnum"))
    /\ result.value =
         JsonObject({<<<<"a">>, JsonString(<<"s">>)>>,
                     <<<<"b">>, ValValue("arrobj")>>})

\* the first character of a text that read_whitespace does not skip
RECURSIVE FirstSignificant(_)
FirstSignificant(t) ==
    IF t = <<>> THEN "EOF"
    ELSE IF Head(t) \in {" ", "\t", "\n", ","}
    THEN FirstSignificant(Tail(t))
    ELSE Head(t)

\* C8: when the first significant character starts no value, parse fails
\* with UnexpectedCharacter and the error raised carries that character.
C8_ErrorCarriesTheCharacter ==
    (pc = "parsed" /\ arg.fam \in {"tokens", "file"} /\ arg.openable
        /\ FirstSignificant(text) \notin
             Digits \cup {"EOF", "NUL", "\"", "t", "f", "n", "-", "{", "["})
    => /\ result.kind = "error"
       /\ result.err = "UnexpectedCharacter"
       /\ \E i \in 1..Len(result.what) :
             result.what[i] = FirstSignificant(text)

\* the failure a text of BadTexts raises
ErrOf(bad) ==
    CASE bad \in {<<"!">>, <<"x">>} -> "UnexpectedCharacter"
      [] Head(bad) = "{" -> "ExpectedColon"
      [] OTHER -> "MalformedLiteral"

\* C9: parse(file_path) returns Null when the path cannot be opened; when
\* it opens, a failure raised at any nesting depth is the outcome of the
\* whole parse: no value comes back.
C9_FileNullOrFailure ==
    Parsed("file")
    => /\ ~arg.openable
          => Verdict(result) = [kind |-> "value", value |-> JsonNode]
       /\ (arg.openable /\ arg.bad \in BadTexts)
          => /\ result.kind = "error"
             /\ result.err = ErrOf(arg.bad)
             /\ node = JsonNode
       /\ (arg.openable /\ arg.bad \in GoodTexts) => result.kind = "value"

C9_Witness ==
    /\ Parsed("file")
    /\ arg.openable
    /\ arg.wraps = <<"obj", "arrobj", "sib">>
    /\ arg.bad = <<"n", "u", "l">>
    /\ result.kind = "error"
    /\ result.what = MsgNull

AccessorOf(type) ==
    CASE type = "STRING" -> "get_string"
      [] type = "NUMBER" -> "get_double"
      [] type = "BOOL" -> "get_bool"
      [] type = "ARRAY" -> "get_vector"
      [] type = "OBJECT" -> "get_object"
      [] OTHER -> "none"

\* C10: an accessor returns the payload exactly when it is the one of the
\* value's variant and fails otherwise; Null fails every accessor and its
\* type is the absent tag; no call changes the value.
C10_AccessorsMatchTheVariant ==
    pc = "called"
    => /\ node = call.on
       /\ node = arg.value
       /\ call.acc = "get_type"
          => /\ call.outcome.ref = node.type
             /\ node = JsonNode => call.outcome.ref = "NIL"
       /\ (call.acc \in Accessors /\ call.acc = AccessorOf(node.type))
          => /\ call.outcome.kind = "value"
             /\ node.type = "STRING" => call.outcome.ref = node.str
             /\ node.type = "NUMBER" => call.outcome.ref = node.num
             /\ node.type = "BOOL" => call.outcome.ref = node.bool
             /\ node.type = "ARRAY" => call.outcome.ref = node.elems
             /\ node.type = "OBJECT" => call.outcome.ref = node.members
       /\ (call.acc \in Accessors /\ call.acc # AccessorOf(node.type))
          => call.outcome.kind = "error"

C10_Witness ==
    /\ pc = "called"
    /\ node = JsonBool(TRUE)
    /\ call.acc = "get_string"
    /\ call.outcome.kind = "error"

=============================================================================
